---- MODULE Spec2Model ----
(***************************************************************************)
(* Model of the SD-card HTTP server (sd_http_server.cpp): mount-root       *)
(* detection, prefix-probing path resolution, recursive listings, the      *)
(* snap link and the retention sweep.                                      *)
(*                                                                         *)
(* An Arduino String is a sequence of tokens.  "/" and "." are the two     *)
(* characters the code inspects; every other token ("sdcard", "a", ...)    *)
(* is a whole path segment whose characters the code never looks inside.   *)
(* strlen("/sdcard/") is therefore three tokens.                           *)
(***************************************************************************)
EXTENDS Naturals, Sequences, FiniteSets

VARIABLES
  mounted,           \* SD_MMC.cardType() != CARD_NONE
  volDirs,           \* directories on the volume (paths as segment sequences)
  volFiles,          \* regular files on the volume
  nameFull,          \* entry.name() yields the full path (TRUE) or the base name
  dirRev,            \* enumeration order of openNextFile()
  s_maxFilesToKeep,  \* the retention limit
  pc,                \* "idle", or the handler whose loop is running
  lastOp,            \* the most recently started operation
  handles,           \* open File handles, oldest first
  stack,             \* recursion frames of the running directory traversal
  httpStatus,        \* status of the last server.send()
  root,              \* detectSdRoot() result of the last operation
  reqFile,           \* handleDownload: the "file" argument
  opened,            \* handleDownload: node returned by openFileWithPrefixes
  saved,             \* handleSnap: captureAndSave() result
  rel,               \* handleSnap: the relativized download parameter
  files,             \* retention: the vector of base names
  toRemove,          \* retention: files.size() - s_maxFilesToKeep
  idx,               \* retention: loop index i
  attempted,         \* retention: paths handed to SD_MMC.remove()
  deleted,           \* retention: nodes actually removed
  prevSweep          \* <<root, deletions>> of the directly preceding clean sweep, else <<>>

vars == <<mounted, volDirs, volFiles, nameFull, dirRev, s_maxFilesToKeep, pc,
          lastOp, handles, stack, httpStatus, root, reqFile, opened, saved,
          rel, files, toRemove, idx, attempted, deleted, prevSweep>>

\* ---------------------------------------------------------------- bounds
MaxLimit == 2

FileNames == {"a", "b", "c"}
NoNode == <<"?">>
NoArg == <<"?", "?">>

\* ---------------------------------------------------------------- strings
EmptyStr == <<>>
SlashStr == <<"/">>
SdcardStr == <<"/", "sdcard">>
SdcardPrefix == <<"/", "sdcard", "/">>
DotSlash == <<".", "/">>

startsWith(s, p) == Len(s) >= Len(p) /\ SubSeq(s, 1, Len(p)) = p
substring(s, from) == SubSeq(s, from + 1, Len(s))

\* byte value of the first character of a token
TokOrd(t) ==
  CASE t = "." -> 46 [] t = "/" -> 47 [] t = "a" -> 97 [] t = "b" -> 98
    [] t = "c" -> 99 [] t = "sdcard" -> 115 [] OTHER -> 120

\* String::operator< (strcmp order)
RECURSIVE StrLess(_, _)
StrLess(s, t) ==
  IF t = <<>> THEN FALSE
  ELSE IF s = <<>> THEN TRUE
  ELSE IF Head(s) = Head(t) THEN StrLess(Tail(s), Tail(t))
  ELSE TokOrd(Head(s)) < TokOrd(Head(t))

\* index of the last "/" counted from 0, or -1 (encoded as position 0 of the
\* one-based sequence: lastIndexOf + 1)
RECURSIVE lastIndexOfSlash1(_)
lastIndexOfSlash1(s) ==
  IF s = <<>> THEN 0
  ELSE IF s[Len(s)] = "/" THEN Len(s)
  ELSE lastIndexOfSlash1(SubSeq(s, 1, Len(s) - 1))

\* ---------------------------------------------------------------- volume
\* the segments a path string names; duplicate and trailing separators are
\* skipped, a segment of several tokens names nothing
RECURSIVE PathKey(_)
PathKey(s) ==
  IF s = <<>> THEN <<>>
  ELSE IF Head(s) = "/" THEN PathKey(Tail(s))
  ELSE IF Len(s) > 1 /\ s[2] # "/" THEN NoNode
  ELSE <<Head(s)>> \o PathKey(Tail(s))

\* SD_MMC.open(path): the node opened, or NoNode when the File is empty.
\* As on the ESP32 VFS the path must be absolute, and nothing opens while no
\* card is mounted.
Open(s) ==
  IF mounted /\ s # <<>> /\ Head(s) = "/"
     /\ PathKey(s) \in (volDirs \cup volFiles)
  THEN PathKey(s) ELSE NoNode

IsDir(n) == n \in volDirs

RECURSIVE PathStr(_)
PathStr(n) == IF n = <<>> THEN <<>> ELSE <<"/", Head(n)>> \o PathStr(Tail(n))

\* File::name()
EntryName(n) ==
  IF nameFull THEN (IF n = <<>> THEN SlashStr ELSE PathStr(n))
  ELSE IF n = <<>> THEN SlashStr ELSE <<n[Len(n)]>>

Children(n) ==
  IF n \in volDirs
  THEN {m \in volDirs \cup volFiles :
          Len(m) = Len(n) + 1 /\ SubSeq(m, 1, Len(n)) = n}
  ELSE {}

\* the order in which openNextFile() hands out the entries of a directory
Before(x, y) == IF dirRev THEN StrLess(y, x) ELSE StrLess(x, y)
Enumerate(S) ==
  [i \in 1..Cardinality(S) |->
     CHOOSE x \in S : Cardinality({y \in S : Before(y, x)}) = i - 1]

\* ---------------------------------------------------------------- handles
DirHandle(lvl) == [kind |-> "dir", level |-> lvl]
EntryHandle(lvl) == [kind |-> "entry", level |-> lvl]
FileHandle == [kind |-> "file", level |-> 0]

OpenHandle(h, x) == Append(h, x)

\* File::close() releases the youngest handle of that kind and level
RECURSIVE CloseHandle(_, _)
CloseHandle(h, x) ==
  IF h = <<>> THEN <<>>
  ELSE IF h[Len(h)] = x THEN SubSeq(h, 1, Len(h) - 1)
  ELSE Append(CloseHandle(SubSeq(h, 1, Len(h) - 1), x), h[Len(h)])

\* ---------------------------------------------------------------- detector
RECURSIVE CountLoop(_, _, _)
CountLoop(entries, cnt, h) ==
  IF entries = <<>> THEN [cnt |-> cnt, h |-> h]
  ELSE LET e == Head(entries)
           h1 == OpenHandle(h, EntryHandle(1))
           c1 == IF ~IsDir(e) THEN cnt + 1 ELSE cnt
       IN CountLoop(Tail(entries), c1, CloseHandle(h1, EntryHandle(1)))

\* variant: the directory handle is never closed
countFiles_noClose(path, h) ==
  IF Open(path) = NoNode THEN [cnt |-> 0, h |-> h]
  ELSE CountLoop(Enumerate(Children(Open(path))), 0, OpenHandle(h, DirHandle(0)))

countFiles(path, h) ==
  IF Open(path) = NoNode THEN [cnt |-> 0, h |-> h]
  ELSE LET r == CountLoop(Enumerate(Children(Open(path))), 0,
                          OpenHandle(h, DirHandle(0)))
       IN [cnt |-> r.cnt, h |-> CloseHandle(r.h, DirHandle(0))]

\* variant: the empty-volume fallback probes "/" before "/sdcard"
fallbackRoot_rootFirst(h) ==
  IF Open(SlashStr) # NoNode
  THEN [root |-> SlashStr,
        h |-> CloseHandle(OpenHandle(h, DirHandle(0)), DirHandle(0))]
  ELSE IF Open(SdcardStr) # NoNode
  THEN [root |-> SdcardStr,
        h |-> CloseHandle(OpenHandle(h, DirHandle(0)), DirHandle(0))]
  ELSE [root |-> EmptyStr, h |-> h]

\* both counts are zero: whichever candidate opens at all, "/sdcard" first
fallbackRoot(h) ==
  IF Open(SdcardStr) # NoNode
  THEN [root |-> SdcardStr,
        h |-> CloseHandle(OpenHandle(h, DirHandle(0)), DirHandle(0))]
  ELSE IF Open(SlashStr) # NoNode
  THEN [root |-> SlashStr,
        h |-> CloseHandle(OpenHandle(h, DirHandle(0)), DirHandle(0))]
  ELSE [root |-> EmptyStr, h |-> h]

\* variant: "/" wins only with strictly more files
detectSdRoot_strict(h) ==
  IF ~mounted THEN [root |-> EmptyStr, h |-> h]
  ELSE LET cr == countFiles(SlashStr, h)
           cs == countFiles(SdcardStr, cr.h)
       IN IF cr.cnt = 0 /\ cs.cnt = 0 THEN fallbackRoot(cs.h)
          ELSE IF cr.cnt > cs.cnt THEN [root |-> SlashStr, h |-> cs.h]
          ELSE [root |-> SdcardStr, h |-> cs.h]

detectSdRoot(h) ==
  IF ~mounted THEN [root |-> EmptyStr, h |-> h]
  ELSE LET cr == countFiles(SlashStr, h)
           cs == countFiles(SdcardStr, cr.h)
           cntRoot == cr.cnt
           cntSdcard == cs.cnt
       IN IF cntRoot = 0 /\ cntSdcard = 0 THEN fallbackRoot(cs.h)
          ELSE IF cntRoot >= cntSdcard THEN [root |-> SlashStr, h |-> cs.h]
          ELSE [root |-> SdcardStr, h |-> cs.h]

\* ---------------------------------------------------------------- resolver
RECURSIVE stripDotSlash(_)
stripDotSlash(f) ==
  IF startsWith(f, DotSlash) THEN stripDotSlash(substring(f, 2)) ELSE f

Found(n, h) == [node |-> n, h |-> OpenHandle(h, FileHandle)]

\* step 5: the detected root joined with the input without its leading slash
tryDetectedRoot(f, h) ==
  LET d == detectSdRoot(h)
      base == IF startsWith(f, SlashStr) THEN substring(f, 1) ELSE f
      candidate == d.root \o SlashStr \o base
  IN IF Len(d.root) # 0 /\ Open(candidate) # NoNode
     THEN Found(Open(candidate), d.h)
     ELSE [node |-> NoNode, h |-> d.h]

\* variant: "/" + f is probed before "/sdcard/" + f
openFileWithPrefixes_rootFirst(req, h) ==
  IF Len(req) = 0 THEN [node |-> NoNode, h |-> h]
  ELSE LET f == stripDotSlash(req)
       IN IF Open(f) # NoNode THEN Found(Open(f), h)
          ELSE IF ~startsWith(f, SlashStr)
          THEN IF Open(SlashStr \o f) # NoNode
               THEN Found(Open(SlashStr \o f), h)
               ELSE IF Open(SdcardPrefix \o f) # NoNode
               THEN Found(Open(SdcardPrefix \o f), h)
               ELSE tryDetectedRoot(f, h)
          ELSE LET trim == substring(f, 1)
               IN IF Open(SdcardPrefix \o trim) # NoNode
                  THEN Found(Open(SdcardPrefix \o trim), h)
                  ELSE IF Open(SlashStr \o trim) # NoNode
                  THEN Found(Open(SlashStr \o trim), h)
                  ELSE tryDetectedRoot(f, h)

openFileWithPrefixes(req, h) ==
  IF Len(req) = 0 THEN [node |-> NoNode, h |-> h]
  ELSE LET f == stripDotSlash(req)
       IN IF Open(f) # NoNode THEN Found(Open(f), h)
          ELSE IF ~startsWith(f, SlashStr)
          THEN IF Open(SdcardPrefix \o f) # NoNode
               THEN Found(Open(SdcardPrefix \o f), h)
               ELSE IF Open(SlashStr \o f) # NoNode
               THEN Found(Open(SlashStr \o f), h)
               ELSE tryDetectedRoot(f, h)
          ELSE LET trim == substring(f, 1)
               IN IF Open(SdcardPrefix \o trim) # NoNode
                  THEN Found(Open(SdcardPrefix \o trim), h)
                  ELSE IF Open(SlashStr \o trim) # NoNode
                  THEN Found(Open(SlashStr \o trim), h)
                  ELSE tryDetectedRoot(f, h)

\* the download parameter handleSnap derives from the saved path
relativize(s) ==
  LET r1 == IF startsWith(s, SdcardPrefix) THEN substring(s, Len(SdcardPrefix)) ELSE s
  IN IF startsWith(r1, SlashStr) THEN substring(r1, 1) ELSE r1

\* ---------------------------------------------------------------- retention
basename(n) ==
  LET k == lastIndexOfSlash1(n) IN IF k > 0 THEN substring(n, k) ELSE n

\* the loop of sdws_enforceRetentionPolicy that fills the vector
RECURSIVE scanFiles(_, _, _)
scanFiles(entries, vec, h) ==
  IF entries = <<>> THEN [files |-> vec, h |-> h]
  ELSE LET e == Head(entries)
           h1 == OpenHandle(h, EntryHandle(1))
           v1 == IF ~IsDir(e) THEN Append(vec, basename(EntryName(e))) ELSE vec
       IN scanFiles(Tail(entries), v1, CloseHandle(h1, EntryHandle(1)))

\* position of v[i] in the sorted vector
sortRank(v, i) ==
  Cardinality({j \in DOMAIN v : StrLess(v[j], v[i]) \/ (v[j] = v[i] /\ j < i)}) + 1

sortStrings(v) ==
  [k \in DOMAIN v |-> v[CHOOSE i \in DOMAIN v : sortRank(v, i) = k]]

\* variant: the vector is used in enumeration order
sortFiles_unsorted(v) == v

\* std::sort(files.begin(), files.end())
sortFiles(v) == sortStrings(v)

\* variant: one file is removed per sweep
removalCount_one(n, limit) == IF n > limit THEN 1 ELSE 0

\* size_t toRemove = files.size() - s_maxFilesToKeep
removalCount(n, limit) == n - limit

\* variant: a zero limit does not disable the sweep
retentionDisabled_never == FALSE

\* if (s_maxFilesToKeep == 0) return;
retentionDisabled == s_maxFilesToKeep = 0

\* ---------------------------------------------------------------- registers
ClearDownload == reqFile' = NoArg /\ opened' = NoNode
ClearSnap == saved' = EmptyStr /\ rel' = EmptyStr
ClearSweep ==
  /\ files' = <<>> /\ toRemove' = 0 /\ idx' = 0
  /\ attempted' = <<>> /\ deleted' = <<>> /\ prevSweep' = <<>>
Platform == UNCHANGED <<mounted, nameFull, dirRev>>
Volume == UNCHANGED <<volDirs, volFiles>>

\* ---------------------------------------------------------------- requests
\* the "file" arguments tried: a present name, a missing name and the two
\* roots, bare and with each prefix, and inputs with leading "./"
Bodies ==
  {<<"a">>, <<"/", "a">>, <<"/", "sdcard", "/", "a">>, <<"sdcard", "/", "a">>,
   <<"x">>, <<"/">>, <<"/", "sdcard">>, <<"sdcard">>}

Dotted ==
  {DotSlash \o b : b \in {<<>>, <<"a">>, <<"/", "a">>, DotSlash \o <<"a">>}}

Requests == {EmptyStr} \cup Bodies \cup Dotted \cup {NoArg}

\* ---------------------------------------------------------------- actions
sdws_setMaxFilesToKeep(maxFiles) ==
  /\ pc = "idle"
  /\ s_maxFilesToKeep' = maxFiles
  /\ lastOp' = "setmax" /\ httpStatus' = 0 /\ root' = EmptyStr
  /\ ClearDownload /\ ClearSnap /\ ClearSweep /\ Platform /\ Volume
  /\ UNCHANGED <<pc, handles, stack>>

handleSdStatus ==
  /\ pc = "idle"
  /\ \E d \in {detectSdRoot(handles)} : root' = d.root /\ handles' = d.h
  /\ lastOp' = "status" /\ httpStatus' = 200
  /\ ClearDownload /\ ClearSnap /\ ClearSweep /\ Platform /\ Volume
  /\ UNCHANGED <<pc, stack, s_maxFilesToKeep>>

handleDownload(arg) ==
  /\ pc = "idle"
  /\ lastOp' = "download" /\ reqFile' = arg /\ root' = EmptyStr
  /\ IF arg = NoArg
     THEN httpStatus' = 400 /\ opened' = NoNode /\ handles' = handles
     ELSE \E r \in {openFileWithPrefixes(arg, handles)} :
             /\ opened' = r.node
             /\ IF r.node = NoNode \/ IsDir(r.node)
                THEN /\ httpStatus' = 404
                     /\ handles' = IF r.node # NoNode
                                   THEN CloseHandle(r.h, FileHandle) ELSE r.h
                ELSE /\ httpStatus' = 200
                     /\ handles' = CloseHandle(r.h, FileHandle)
  /\ ClearSnap /\ ClearSweep /\ Platform /\ Volume
  /\ UNCHANGED <<pc, stack, s_maxFilesToKeep>>

\* captureAndSave() of the main sketch, when it succeeds: the path it returns
\* for the file it wrote into directory d under the name n
captureAndSave(d, n) == PathStr(Append(d, n))

\* the capture fails, or writes one file into an existing directory
handleSnap ==
  /\ pc = "idle"
  /\ lastOp' = "snap" /\ root' = EmptyStr
  /\ \/ /\ saved' = EmptyStr /\ rel' = EmptyStr /\ httpStatus' = 500
        /\ Volume
     \/ \E d \in volDirs, n \in FileNames :
          /\ mounted
          /\ Append(d, n) \notin volDirs
          /\ volFiles' = volFiles \cup {Append(d, n)}
          /\ volDirs' = volDirs
          /\ saved' = captureAndSave(d, n)
          /\ rel' = relativize(captureAndSave(d, n))
          /\ httpStatus' = 200
  /\ ClearDownload /\ ClearSweep /\ Platform
  /\ UNCHANGED <<pc, stack, handles, s_maxFilesToKeep>>

\* sdws_enforceRetentionPolicy up to and including the sort
enforceStart ==
  /\ pc = "idle"
  /\ lastOp' = "enforce" /\ httpStatus' = 0
  /\ prevSweep' = IF lastOp = "enforce" /\ Len(deleted) = Len(attempted)
                  THEN <<root, Len(deleted)>> ELSE <<>>
  /\ idx' = 0 /\ attempted' = <<>> /\ deleted' = <<>>
  /\ IF retentionDisabled
     THEN /\ root' = EmptyStr /\ handles' = handles
          /\ files' = <<>> /\ toRemove' = 0 /\ pc' = "idle"
     ELSE \E d \in {detectSdRoot(handles)} :
             /\ root' = d.root
             /\ IF Len(d.root) = 0 \/ Open(d.root) = NoNode
                THEN /\ handles' = d.h /\ files' = <<>> /\ toRemove' = 0
                     /\ pc' = "idle"
                ELSE \E s \in {scanFiles(Enumerate(Children(Open(d.root))), <<>>,
                                         OpenHandle(d.h, DirHandle(0)))} :
                        /\ handles' = CloseHandle(s.h, DirHandle(0))
                        /\ IF Len(s.files) <= s_maxFilesToKeep
                           THEN /\ files' = s.files /\ toRemove' = 0
                                /\ pc' = "idle"
                           ELSE /\ files' = sortFiles(s.files)
                                /\ toRemove' = removalCount(Len(s.files),
                                                            s_maxFilesToKeep)
                                /\ pc' = "enforce"
  /\ ClearDownload /\ ClearSnap /\ Platform /\ Volume
  /\ UNCHANGED <<stack, s_maxFilesToKeep>>

\* variant: the loop ends at the first failed removal
enforceRemove_stopOnFail ==
  /\ pc = "enforce" /\ idx < toRemove
  /\ LET p == root \o SlashStr \o files[idx + 1]
     IN /\ attempted' = Append(attempted, p)
        /\ \/ /\ Open(p) \in volFiles
              /\ volFiles' = volFiles \ {Open(p)}
              /\ deleted' = Append(deleted, Open(p))
              /\ pc' = IF idx + 1 < toRemove THEN "enforce" ELSE "idle"
           \/ /\ volFiles' = volFiles
              /\ deleted' = deleted
              /\ pc' = "idle"
  /\ idx' = idx + 1
  /\ Platform
  /\ UNCHANGED <<volDirs, s_maxFilesToKeep, lastOp, handles, stack, httpStatus,
                 root, reqFile, opened, saved, rel, files, toRemove, prevSweep>>

\* one iteration of the removal loop; SD_MMC.remove() may fail
enforceRemove ==
  /\ pc = "enforce" /\ idx < toRemove
  /\ LET p == root \o SlashStr \o files[idx + 1]
     IN /\ attempted' = Append(attempted, p)
        /\ \/ /\ Open(p) \in volFiles
              /\ volFiles' = volFiles \ {Open(p)}
              /\ deleted' = Append(deleted, Open(p))
           \/ /\ volFiles' = volFiles
              /\ deleted' = deleted
  /\ idx' = idx + 1
  /\ pc' = IF idx + 1 < toRemove THEN "enforce" ELSE "idle"
  /\ Platform
  /\ UNCHANGED <<volDirs, s_maxFilesToKeep, lastOp, handles, stack, httpStatus,
                 root, reqFile, opened, saved, rel, files, toRemove, prevSweep>>

\* ---------------------------------------------------------------- listings
Frame(lvl, entries, pre) ==
  [level |-> lvl, rest |-> entries, entry |-> NoNode, phase |-> "loop",
   prefix |-> pre]

Top == stack[Len(stack)]
SetTop(f) == [stack EXCEPT ![Len(stack)] = f]
Traversal == UNCHANGED <<s_maxFilesToKeep, lastOp, httpStatus, root, reqFile,
                         opened, saved, rel, files, toRemove, idx, attempted,
                         deleted, prevSweep, pc>>

handleRootStart ==
  /\ pc = "idle"
  /\ lastOp' = "root"
  /\ IF ~mounted
     THEN /\ root' = EmptyStr /\ handles' = handles /\ stack' = stack
          /\ pc' = "idle" /\ httpStatus' = 200
     ELSE \E d \in {detectSdRoot(handles)} :
             /\ root' = d.root
             /\ IF Len(d.root) = 0 \/ Open(d.root) = NoNode
                THEN /\ handles' = d.h /\ stack' = stack
                     /\ pc' = "idle" /\ httpStatus' = 200
                ELSE /\ handles' = OpenHandle(d.h, DirHandle(0))
                     /\ stack' = <<Frame(1, Enumerate(Children(Open(d.root))),
                                         EmptyStr)>>
                     /\ pc' = "html" /\ httpStatus' = 0
  /\ ClearDownload /\ ClearSnap /\ ClearSweep /\ Platform /\ Volume
  /\ UNCHANGED s_maxFilesToKeep

\* File entry = dir.openNextFile(), entry not empty
openNextFile(which) ==
  /\ pc = which /\ stack # <<>>
  /\ Top.phase = "loop" /\ Top.rest # <<>>
  /\ stack' = SetTop([Top EXCEPT !.entry = Head(Top.rest),
                                 !.rest = Tail(Top.rest),
                                 !.phase = "opened"])
  /\ handles' = OpenHandle(handles, EntryHandle(Top.level))
  /\ Traversal /\ Platform /\ Volume

\* variant: a file entry is left open when the loop moves on
htmlEntry_noClose ==
  /\ pc = "html" /\ stack # <<>> /\ Top.phase = "opened"
  /\ IF IsDir(Top.entry)
     THEN /\ stack' = Append(SetTop([Top EXCEPT !.phase = "rec"]),
                             Frame(Top.level + 1,
                                   Enumerate(Children(Top.entry)), EmptyStr))
          /\ handles' = handles
     ELSE /\ stack' = SetTop([Top EXCEPT !.phase = "loop", !.entry = NoNode])
          /\ handles' = handles
  /\ Traversal /\ Platform /\ Volume

\* body of the loop of printDirectoryHtmlAt up to the recursive call
htmlEntry ==
  /\ pc = "html" /\ stack # <<>> /\ Top.phase = "opened"
  /\ IF IsDir(Top.entry)
     THEN /\ stack' = Append(SetTop([Top EXCEPT !.phase = "rec"]),
                             Frame(Top.level + 1,
                                   Enumerate(Children(Top.entry)), EmptyStr))
          /\ handles' = handles
     ELSE /\ stack' = SetTop([Top EXCEPT !.phase = "loop", !.entry = NoNode])
          /\ handles' = CloseHandle(handles, EntryHandle(Top.level))
  /\ Traversal /\ Platform /\ Volume

\* openNextFile() is empty: the frame returns and its caller closes the entry
htmlReturn ==
  /\ pc = "html" /\ stack # <<>>
  /\ Top.phase = "loop" /\ Top.rest = <<>>
  /\ LET below == SubSeq(stack, 1, Len(stack) - 1)
     IN IF below = <<>>
        THEN stack' = <<>> /\ handles' = handles
        ELSE /\ stack' = [below EXCEPT ![Len(below)] =
                            [@ EXCEPT !.phase = "loop", !.entry = NoNode]]
             /\ handles' = CloseHandle(handles,
                                       EntryHandle(below[Len(below)].level))
  /\ Traversal /\ Platform /\ Volume

handleRootFinish ==
  /\ pc = "html" /\ stack = <<>>
  /\ handles' = CloseHandle(handles, DirHandle(0))
  /\ pc' = "idle" /\ httpStatus' = 200
  /\ Platform /\ Volume
  /\ UNCHANGED <<s_maxFilesToKeep, lastOp, root, reqFile, opened, saved, rel,
                 files, toRemove, idx, attempted, deleted, prevSweep, stack>>

sdws_debugListStart ==
  /\ pc = "idle"
  /\ lastOp' = "debug" /\ httpStatus' = 0
  /\ IF ~mounted
     THEN /\ root' = EmptyStr /\ handles' = handles /\ stack' = stack
          /\ pc' = "idle"
     ELSE \E d \in {detectSdRoot(handles)} :
          LET h1 == IF Open(SlashStr) # NoNode
                    THEN CloseHandle(OpenHandle(d.h, DirHandle(0)), DirHandle(0))
                    ELSE d.h
              h2 == IF Open(SdcardStr) # NoNode
                    THEN CloseHandle(OpenHandle(h1, DirHandle(0)), DirHandle(0))
                    ELSE h1
          IN /\ root' = d.root
             /\ IF Len(d.root) = 0
                THEN handles' = h2 /\ stack' = stack /\ pc' = "idle"
                ELSE IF Open(d.root) = NoNode
                THEN handles' = d.h /\ stack' = stack /\ pc' = "idle"
                ELSE /\ handles' = OpenHandle(d.h, DirHandle(0))
                     /\ stack' = <<Frame(1, Enumerate(Children(Open(d.root))),
                                         IF d.root = SlashStr THEN EmptyStr
                                         ELSE d.root)>>
                     /\ pc' = "serial"
  /\ ClearDownload /\ ClearSnap /\ ClearSweep /\ Platform /\ Volume
  /\ UNCHANGED s_maxFilesToKeep

\* body of the loop of printDirectorySerial up to the recursive call
serialEntry ==
  /\ pc = "serial" /\ stack # <<>> /\ Top.phase = "opened"
  /\ LET name == EntryName(Top.entry)
         fullPath == IF Len(Top.prefix) # 0
                     THEN Top.prefix \o SlashStr \o name ELSE name
     IN IF IsDir(Top.entry) /\ Open(fullPath) # NoNode
        THEN /\ stack' = Append(SetTop([Top EXCEPT !.phase = "rec"]),
                                Frame(Top.level + 1,
                                      Enumerate(Children(Open(fullPath))),
                                      fullPath))
             /\ handles' = OpenHandle(handles, DirHandle(Top.level))
        ELSE /\ stack' = SetTop([Top EXCEPT !.phase = "loop", !.entry = NoNode])
             /\ handles' = CloseHandle(handles, EntryHandle(Top.level))
  /\ Traversal /\ Platform /\ Volume

\* the frame returns; its caller closes sub and then the entry
serialReturn ==
  /\ pc = "serial" /\ stack # <<>>
  /\ Top.phase = "loop" /\ Top.rest = <<>>
  /\ LET below == SubSeq(stack, 1, Len(stack) - 1)
     IN IF below = <<>>
        THEN stack' = <<>> /\ handles' = handles
        ELSE /\ stack' = [below EXCEPT ![Len(below)] =
                            [@ EXCEPT !.phase = "loop", !.entry = NoNode]]
             /\ handles' = CloseHandle(
                             CloseHandle(handles,
                                         DirHandle(below[Len(below)].level)),
                             EntryHandle(below[Len(below)].level))
  /\ Traversal /\ Platform /\ Volume

sdws_debugListFinish ==
  /\ pc = "serial" /\ stack = <<>>
  /\ handles' = CloseHandle(handles, DirHandle(0))
  /\ pc' = "idle"
  /\ Platform /\ Volume
  /\ UNCHANGED <<s_maxFilesToKeep, lastOp, httpStatus, root, reqFile, opened,
                 saved, rel, files, toRemove, idx, attempted, deleted, prevSweep,
                 stack>>

\* ---------------------------------------------------------------- system
RootFiles == {<<n>> : n \in FileNames}
SdcardFiles == {<<"sdcard", n>> : n \in FileNames}

Init ==
  /\ mounted \in BOOLEAN /\ nameFull \in BOOLEAN /\ dirRev \in BOOLEAN
  /\ volDirs \in (IF mounted THEN {{}, {<<>>}, {<<>>, <<"sdcard">>}} ELSE {{}})
  /\ volFiles \in {rf \cup sf : rf \in SUBSET RootFiles, sf \in SUBSET SdcardFiles}
  /\ \A f \in volFiles : SubSeq(f, 1, Len(f) - 1) \in volDirs
  /\ s_maxFilesToKeep = 0
  /\ pc = "idle" /\ lastOp = "init" /\ handles = <<>> /\ stack = <<>>
  /\ httpStatus = 0 /\ root = EmptyStr
  /\ reqFile = NoArg /\ opened = NoNode
  /\ saved = EmptyStr /\ rel = EmptyStr
  /\ files = <<>> /\ toRemove = 0 /\ idx = 0
  /\ attempted = <<>> /\ deleted = <<>> /\ prevSweep = <<>>

Next ==
  \/ \E n \in 0..MaxLimit : sdws_setMaxFilesToKeep(n)
  \/ handleSdStatus
  \/ \E r \in Requests : handleDownload(r)
  \/ handleSnap
  \/ enforceStart
  \/ enforceRemove
  \/ handleRootStart
  \/ openNextFile("html")
  \/ htmlEntry
  \/ htmlReturn
  \/ handleRootFinish
  \/ sdws_debugListStart
  \/ openNextFile("serial")
  \/ serialEntry
  \/ serialReturn
  \/ sdws_debugListFinish

Spec == Init /\ [][Next]_vars

\* ---------------------------------------------------------------- properties
Range(q) == {q[i] : i \in DOMAIN q}
Parent(n) == SubSeq(n, 1, Len(n) - 1)
Exists(n) == n \in volDirs \cup volFiles

\* non-directory entries directly under "/" and under "/sdcard"
CntRoot == Cardinality({f \in volFiles : Parent(f) = <<>>})
CntSdcard == Cardinality({f \in volFiles : Parent(f) = <<"sdcard">>})

StatusDone == pc = "idle" /\ lastOp = "status" /\ mounted

C2_EmptyFallback ==
  (StatusDone /\ CntRoot = 0 /\ CntSdcard = 0)
    => root = (IF Exists(<<"sdcard">>) THEN SdcardStr
               ELSE IF Exists(<<>>) THEN SlashStr ELSE EmptyStr)

C2_Witness ==
  /\ StatusDone /\ CntRoot = 0 /\ CntSdcard = 0
  /\ Exists(<<"sdcard">>) /\ Exists(<<>>) /\ root = SdcardStr

\* the candidates of the resolution order, in order
Candidates(req) ==
  LET f == stripDotSlash(req)
      noSlash == IF startsWith(f, SlashStr) THEN substring(f, 1) ELSE f
      det == detectSdRoot(<<>>).root
  IN <<f, SdcardPrefix \o noSlash, SlashStr \o noSlash>>
     \o (IF det # EmptyStr THEN <<det \o SlashStr \o noSlash>> ELSE <<>>)

RECURSIVE FirstOpening(_)
FirstOpening(cs) ==
  IF cs = <<>> THEN NoNode
  ELSE IF Open(Head(cs)) # NoNode THEN Open(Head(cs))
  ELSE FirstOpening(Tail(cs))

DownloadDone ==
  pc = "idle" /\ lastOp = "download" /\ reqFile # NoArg /\ reqFile # EmptyStr

\* C3: for every non-empty reference resolve() returns the first candidate
\* that opens, in the order: normalized input, "/sdcard/" + input and "/" +
\* input (leading "/" stripped first when present), detected root + "/" +
\* input without its leading slash; it returns not-found iff all of them fail.
C3_FirstCandidateWins ==
  DownloadDone
    => /\ opened = FirstOpening(Candidates(reqFile))
       /\ (opened = NoNode) <=>
            (\A i \in DOMAIN Candidates(reqFile) :
               Open(Candidates(reqFile)[i]) = NoNode)

C3_Witness ==
  /\ DownloadDone /\ reqFile = <<"/", "a">>
  /\ ~Exists(<<"a">>) /\ opened = <<"sdcard", "a">>

SweepDone == pc = "idle" /\ lastOp = "enforce"
SweepNode == PathKey(root)

\* the non-directory entries directly under the swept root before the sweep
SweepBefore ==
  {f \in volFiles \cup Range(deleted) : Parent(f) = SweepNode}
SweepAfter == {f \in volFiles : Parent(f) = SweepNode}
Base(f) == <<f[Len(f)]>>

\* the k entries of S with the smallest base names
Smallest(S, k) ==
  {f \in S : Cardinality({g \in S : StrLess(Base(g), Base(f))}) < k}

SweepOverLimit ==
  /\ SweepDone /\ s_maxFilesToKeep > 0 /\ root # EmptyStr
  /\ Cardinality(SweepBefore) > s_maxFilesToKeep
  /\ Len(deleted) = Len(attempted)

\* C4: with limit L > 0, a detected root and n > L files directly under it,
\* enforce() deletes exactly the n - L smallest base names and leaves exactly
\* the L largest, given that every deletion succeeds.
C4_DeletesSmallest ==
  SweepOverLimit
    => LET n == Cardinality(SweepBefore)
       IN /\ Range(deleted) = Smallest(SweepBefore, n - s_maxFilesToKeep)
          /\ SweepAfter = SweepBefore \ Smallest(SweepBefore, n - s_maxFilesToKeep)
          /\ Cardinality(SweepAfter) = s_maxFilesToKeep

C4_Witness ==
  SweepOverLimit /\ Len(deleted) >= 2 /\ dirRev

SecondSweep ==
  SweepDone /\ s_maxFilesToKeep > 0 /\ prevSweep # <<>>

C6_ZeroLimitKeepsAll ==
  [][(s_maxFilesToKeep = 0) => (volFiles \subseteq volFiles' /\ volDirs \subseteq volDirs')]_vars

C6_Witness ==
  SweepDone /\ s_maxFilesToKeep = 0 /\ Cardinality(volFiles) >= 2

\* C7: for every non-empty path returned by captureAndSave(), resolving the
\* relativized reference opens the file saved at that path.
C7_SnapRoundTrip ==
  (pc = "idle" /\ lastOp = "snap" /\ saved # EmptyStr)
    => openFileWithPrefixes(rel, <<>>).node = Open(saved)

\* C8: a failed deletion does not stop the sweep: once enforce() has returned,
\* every one of the selected files has been handed to remove(), in order.
C8_SweepAttemptsAll ==
  SweepDone
    => /\ Len(attempted) = toRemove
       /\ \A i \in 1..toRemove : attempted[i] = root \o SlashStr \o files[i]

C8_Witness ==
  /\ SweepDone /\ toRemove >= 2 /\ Len(deleted) >= 1
  /\ PathKey(attempted[1]) \in volFiles

\* C9: between operations no file or directory handle is open.
C9_NoHandleLeak == (pc = "idle") => (handles = <<>>)

C9_Witness ==
  /\ pc = "idle" /\ lastOp = "download" /\ httpStatus = 404
  /\ opened # NoNode

EntriesAt(k) == Cardinality({i \in DOMAIN handles : handles[i] = EntryHandle(k)})

\* C10: during a traversal by either renderer at most one entry handle is
\* open per nesting level.
C10_OneEntryPerLevel ==
  (pc \in {"html", "serial"}) => \A k \in 1..(Len(stack) + 1) : EntriesAt(k) <= 1

C10_Witness ==
  /\ pc \in {"html", "serial"} /\ Len(stack) = 2
  /\ Top.phase = "opened" /\ Top.rest = <<>>
  /\ Cardinality(Children(Parent(Top.entry))) >= 2
  /\ EntriesAt(1) = 1 /\ EntriesAt(2) = 1

====
